---- MODULE Spec2Model ----
(***************************************************************************)
(* The two voice assistants of the repository as state machines:           *)
(*   FastVoiceAssistant (v.py)    - quick rules, then an ollama fallback   *)
(*                                  behind a response cache                *)
(*   VoiceAssistant     (v_me.py) - time/date, remember/recall/clear       *)
(* Text is a sequence of one-character strings, so that Python's substring *)
(* test, str.replace, str.strip, str.lower and str.endswith are computed   *)
(* character by character, as the interpreter computes them.               *)
(***************************************************************************)
EXTENDS Integers, Sequences, FiniteSets, TLC

VARIABLES pc, memory, file, response_cache, lru, command, spoken,
          should_exit, prev_command, gen, prevGen, exit, saved, turns, io

vars == <<pc, memory, file, response_cache, lru, command, spoken,
          should_exit, prev_command, gen, prevGen, exit, saved, turns, io>>

\* ------------------------------------------------------------------ bounds
\* Listen calls per session.
MaxTurns == 3
\* Distinct prompts offered to the cache in the fill specification.
MaxFill == 102

\* ------------------------------------------------------------- Python values
\* Python's None: a value no text equals (text holds one-character strings).
None == <<"None">>
\* str(None)
StrNone == <<"N", "o", "n", "e">>
\* bool(x) for x a str or None
Truthy(x) == x # None /\ x # <<>>

\* `sub in s` for strings
Contains(sub, s) ==
    \E i \in 0..(Len(s) - Len(sub)) : SubSeq(s, i + 1, i + Len(sub)) = sub

UpperChars == <<"A","B","C","D","E","F","G","H","I","J","K","L","M",
                "N","O","P","Q","R","S","T","U","V","W","X","Y","Z">>
LowerChars == <<"a","b","c","d","e","f","g","h","i","j","k","l","m",
                "n","o","p","q","r","s","t","u","v","w","x","y","z">>
LowerChar(c) ==
    IF \E i \in 1..Len(UpperChars) : UpperChars[i] = c
    THEN LowerChars[CHOOSE i \in 1..Len(UpperChars) : UpperChars[i] = c]
    ELSE c
\* str.lower()
Lower(s) == [i \in 1..Len(s) |-> LowerChar(s[i])]

\* str.replace(old, new): left to right, non-overlapping, one pass
RECURSIVE Replace(_, _, _)
Replace(s, old, new) ==
    IF Len(s) < Len(old) THEN s
    ELSE IF SubSeq(s, 1, Len(old)) = old
         THEN new \o Replace(SubSeq(s, Len(old) + 1, Len(s)), old, new)
         ELSE <<Head(s)>> \o Replace(Tail(s), old, new)

Whitespace == {" ", "\t", "\n", "\r"}
RECURSIVE LStrip(_)
LStrip(s) == IF s # <<>> /\ Head(s) \in Whitespace THEN LStrip(Tail(s)) ELSE s
RECURSIVE RStrip(_)
RStrip(s) ==
    IF s # <<>> /\ s[Len(s)] \in Whitespace
    THEN RStrip(SubSeq(s, 1, Len(s) - 1)) ELSE s
\* a strip() that was left out
Strip_Nothing(s) == s
\* str.strip()
Strip(s) == RStrip(LStrip(s))

\* str.endswith(suffix)
EndsWith(s, suffix) ==
    /\ Len(suffix) <= Len(s)
    /\ SubSeq(s, Len(s) - Len(suffix) + 1, Len(s)) = suffix
\* str.endswith(('.', '!', '?'))
TerminalMarks == {<<".">>, <<"!">>, <<"?">>}
EndsWithMark(s) == \E m \in TerminalMarks : EndsWith(s, m)

\* ------------------------------------------------------------------ clock
\* datetime.datetime.now(): the readings the model draws from
Nows == { [hour |-> 0,  minute |-> 5,  month |-> 11, day |-> 2,  year |-> 2026],
          [hour |-> 13, minute |-> 30, month |-> 1,  day |-> 15, year |-> 2027] }
Digits == <<"0","1","2","3","4","5","6","7","8","9">>
Digit(d) == Digits[d + 1]
TwoDigits(n) == <<Digit((n \div 10) % 10), Digit(n % 10)>>
FourDigits(n) == TwoDigits(n \div 100) \o TwoDigits(n % 100)
MonthNames ==
    <<<<"J", "a", "n", "u", "a", "r", "y">>,
      <<"F", "e", "b", "r", "u", "a", "r", "y">>,
      <<"M", "a", "r", "c", "h">>,
      <<"A", "p", "r", "i", "l">>,
      <<"M", "a", "y">>,
      <<"J", "u", "n", "e">>,
      <<"J", "u", "l", "y">>,
      <<"A", "u", "g", "u", "s", "t">>,
      <<"S", "e", "p", "t", "e", "m", "b", "e", "r">>,
      <<"O", "c", "t", "o", "b", "e", "r">>,
      <<"N", "o", "v", "e", "m", "b", "e", "r">>,
      <<"D", "e", "c", "e", "m", "b", "e", "r">>>>
\* strftime('%I:%M %p')
StrfTime(now) ==
    TwoDigits(IF now.hour % 12 = 0 THEN 12 ELSE now.hour % 12) \o <<":">>
        \o TwoDigits(now.minute) \o <<" ">>
        \o (IF now.hour < 12 THEN <<"A", "M">> ELSE <<"P", "M">>)
\* strftime('%B %d, %Y')
StrfDate(now) ==
    MonthNames[now.month] \o <<" ">> \o TwoDigits(now.day) \o <<",", " ">>
        \o FourDigits(now.year)

\* ------------------------------------------------------------------- texts
\* quick-rule keys, in the dict's insertion order
K_time == <<"t", "i", "m", "e">>
K_date == <<"d", "a", "t", "e">>
K_hello == <<"h", "e", "l", "l", "o">>
K_bye == <<"b", "y", "e">>
K_goodbye == <<"g", "o", "o", "d", "b", "y", "e">>
\* rule keys of VoiceAssistant.process_command
K_remember == <<"r", "e", "m", "e", "m", "b", "e", "r">>
K_what_did == <<"w", "h", "a", "t", " ", "d", "i", "d", " ", "i", " ", "t", "e", "l", "l", " ", "y", "o", "u">>
K_what_do == <<"w", "h", "a", "t", " ", "d", "o", " ", "y", "o", "u", " ", "r", "e", "m", "e", "m", "b", "e", "r">>
K_clear == <<"c", "l", "e", "a", "r", " ", "m", "e", "m", "o", "r", "y">>
\* what FastVoiceAssistant says
R_Its == <<"I", "t", "'", "s", " ">>
R_TodayIs == <<"T", "o", "d", "a", "y", " ", "i", "s", " ">>
R_Hi == <<"H", "i", "!", " ", "H", "o", "w", " ", "c", "a", "n", " ", "I", " ", "h", "e", "l", "p", "?">>
R_Goodbye == <<"G", "o", "o", "d", "b", "y", "e", "!">>
R_Apology == <<"I", "'", "m", " ", "h", "a", "v", "i", "n", "g", " ", "t", "r", "o", "u", "b", "l", "e", " ", "p", "r", "o", "c", "e", "s", "s", "i", "n", "g", " ", "t", "h", "a", "t", " ", "r", "i", "g", "h", "t", " ", "n", "o", "w", ".">>
R_Repeat == <<"C", "o", "u", "l", "d", " ", "y", "o", "u", " ", "r", "e", "p", "e", "a", "t", " ", "t", "h", "a", "t", "?">>
R_Ready == <<"R", "e", "a", "d", "y", " ", "t", "o", " ", "h", "e", "l", "p", "!">>
BuildPrefix == <<"R", "e", "s", "p", "o", "n", "d", " ", "c", "o", "n", "c", "i", "s", "e", "l", "y", " ", "t", "o", ":", " ">>
\* what VoiceAssistant says
M_Note == <<"I", "'", "l", "l", " ", "m", "a", "k", "e", " ", "a", " ", "n", "o", "t", "e", " ", "o", "f", " ", "t", "h", "a", "t", ".">>
M_Heres == <<"H", "e", "r", "e", "'", "s", " ", "w", "h", "a", "t", " ", "I", " ", "r", "e", "m", "e", "m", "b", "e", "r", ":">>
M_Dash == <<"-", " ">>
M_NoTasks == <<"I", " ", "d", "o", "n", "'", "t", " ", "h", "a", "v", "e", " ", "a", "n", "y", " ", "t", "a", "s", "k", "s", " ", "s", "t", "o", "r", "e", "d", " ", "i", "n", " ", "m", "e", "m", "o", "r", "y", " ", "y", "e", "t", ".">>
M_Cleared == <<"M", "e", "m", "o", "r", "y", " ", "c", "l", "e", "a", "r", "e", "d", ".">>
M_Goodbye == <<"G", "o", "o", "d", "b", "y", "e", "!", " ", "H", "a", "v", "e", " ", "a", " ", "g", "r", "e", "a", "t", " ", "d", "a", "y", "!">>
M_Else1 == <<"I", "'", "m", " ", "h", "e", "r", "e", " ", "t", "o", " ", "h", "e", "l", "p", ".", " ", "W", "h", "a", "t", " ", "c", "a", "n", " ", "I", " ", "d", "o", " ", "f", "o", "r", " ", "y", "o", "u", "?">>
M_Else2 == <<"I", " ", "d", "i", "d", "n", "'", "t", " ", "q", "u", "i", "t", "e", " ", "u", "n", "d", "e", "r", "s", "t", "a", "n", "d", ".", " ", "C", "o", "u", "l", "d", " ", "y", "o", "u", " ", "r", "e", "p", "h", "r", "a", "s", "e", " ", "t", "h", "a", "t", "?">>
M_Else3 == <<"T", "h", "a", "t", "'", "s", " ", "n", "o", "t", " ", "s", "o", "m", "e", "t", "h", "i", "n", "g", " ", "I", "'", "m", " ", "c", "a", "p", "a", "b", "l", "e", " ", "o", "f", ",", " ", "b", "u", "t", " ", "I", " ", "c", "a", "n", " ", "h", "e", "l", "p", " ", "w", "i", "t", "h", " ", "t", "a", "s", "k", "s", ",", " ", "r", "e", "m", "i", "n", "d", "e", "r", "s", ",", " ", "t", "i", "m", "e", ",", " ", "a", "n", "d", " ", "d", "a", "t", "e", ".">>
M_Else4 == <<"I", "'", "m", " ", "s", "t", "i", "l", "l", " ", "l", "e", "a", "r", "n", "i", "n", "g", ".", " ", "C", "o", "u", "l", "d", " ", "y", "o", "u", " ", "t", "r", "y", " ", "a", " ", "d", "i", "f", "f", "e", "r", "e", "n", "t", " ", "c", "o", "m", "m", "a", "n", "d", "?">>
M_NoHear == <<"I", " ", "d", "i", "d", "n", "'", "t", " ", "h", "e", "a", "r", " ", "a", "n", "y", "t", "h", "i", "n", "g", ".", " ", "C", "o", "u", "l", "d", " ", "y", "o", "u", " ", "p", "l", "e", "a", "s", "e", " ", "s", "p", "e", "a", "k", " ", "a", "g", "a", "i", "n", "?">>
M_NoCatch == <<"I", " ", "d", "i", "d", "n", "'", "t", " ", "c", "a", "t", "c", "h", " ", "t", "h", "a", "t", ".", " ", "C", "o", "u", "l", "d", " ", "y", "o", "u", " ", "p", "l", "e", "a", "s", "e", " ", "r", "e", "p", "e", "a", "t", "?">>
M_NoService == <<"I", "'", "m", " ", "h", "a", "v", "i", "n", "g", " ", "t", "r", "o", "u", "b", "l", "e", " ", "a", "c", "c", "e", "s", "s", "i", "n", "g", " ", "t", "h", "e", " ", "s", "p", "e", "e", "c", "h", " ", "r", "e", "c", "o", "g", "n", "i", "t", "i", "o", "n", " ", "s", "e", "r", "v", "i", "c", "e", ".">>
M_HelloPre == <<"H", "e", "l", "l", "o", "!", " ", "I", "'", "m", " ">>
M_HelloPost == <<",", " ", "y", "o", "u", "r", " ", "v", "o", "i", "c", "e", " ", "a", "s", "s", "i", "s", "t", "a", "n", "t", ".", " ", "H", "o", "w", " ", "c", "a", "n", " ", "I", " ", "h", "e", "l", "p", " ", "y", "o", "u", " ", "t", "o", "d", "a", "y", "?">>
N_Helper == <<"H", "e", "l", "p", "e", "r">>
\* recognised texts the model draws from (as recognize_google returns them)
U_time == <<"w", "h", "a", "t", " ", "t", "i", "m", "e", " ", "i", "s", " ", "i", "t">>
U_time_bye == <<"t", "i", "m", "e", " ", "t", "o", " ", "s", "a", "y", " ", "b", "y", "e">>
U_Bye == <<"B", "y", "e">>
U_goodbye == <<"g", "o", "o", "d", "b", "y", "e">>
U_hello == <<"h", "e", "l", "l", "o">>
U_date == <<"r", "e", "m", "e", "m", "b", "e", "r", " ", "t", "h", "e", " ", "d", "a", "t", "e">>
U_sing == <<"s", "i", "n", "g">>
U_joke == <<"j", "o", "k", "e">>
U_trash == <<"r", "e", "m", "e", "m", "b", "e", "r", " ", "t", "a", "k", "e", " ", "o", "u", "t", " ", "t", "h", "e", " ", "t", "r", "a", "s", "h">>
U_milk == <<"d", "o", " ", "r", "e", "m", "e", "m", "b", "e", "r", " ", "m", "i", "l", "k">>
U_what_do == <<"w", "h", "a", "t", " ", "d", "o", " ", "y", "o", "u", " ", "r", "e", "m", "e", "m", "b", "e", "r">>
U_what_did == <<"w", "h", "a", "t", " ", "d", "i", "d", " ", "i", " ", "t", "e", "l", "l", " ", "y", "o", "u">>
U_clear == <<"c", "l", "e", "a", "r", " ", "m", "e", "m", "o", "r", "y">>

\* ---------------------------------------------------- memory and its file
MemoryKeys == {"conversations", "tasks", "preferences"}
EmptyMemory == [conversations |-> <<>>, tasks |-> <<>>, preferences |-> <<>>]
HasKey(m, k) == k \in DOMAIN m

\* assistant_memory.json: absent, unparsable, or a JSON object
FileAbsent == [kind |-> "absent"]
FileCorrupt == [kind |-> "corrupt"]
\* json.dump of a dict of lists of strings / json.load of that text
JsonDump(m) == [kind |-> "json", value |-> m]
JsonLoad(f) == f.value

\* what assistant_memory.json may hold when the program starts
StoredTasks == << <<"a">>, <<"b">>, <<"c">>, <<"d">> >>
InitialFiles ==
    { FileAbsent,
      FileCorrupt,
      JsonDump(EmptyMemory),
      JsonDump([EmptyMemory EXCEPT !.tasks = StoredTasks]),
      JsonDump([notes |-> <<>>]) }

\* a load_memory whose except clause assigns a fresh dict with one key
load_memory_ResetOnError(f) ==
    IF f.kind = "json" THEN JsonLoad(f)
    ELSE IF f.kind = "corrupt" THEN [conversations |-> <<>>]
    ELSE EmptyMemory
\* load_memory: the memory after __init__ has set the empty one
load_memory(f) ==
    IF f.kind = "json" THEN JsonLoad(f) ELSE EmptyMemory

\* save_memory: the file afterwards. open(..., 'w') may fail (file untouched),
\* or truncate and then json.dump may fail part-way (a partial text is left).
SaveOutcomes == {"ok", "open_fails", "dump_fails"}
save_memory(f, m, o) ==
    CASE o = "ok" -> JsonDump(m)
      [] o = "open_fails" -> f
      [] o = "dump_fails" -> FileCorrupt

\* ------------------------------------------------------------------ speak
Fillers == <<<<"o", "k">>, <<"h", "m", "m">>, <<"a", "h">>>>
VA_Fillers == <<<<"h", "m", "m">>, <<"l", "e", "t", " ", "m", "e", " ", "s", "e", "e">>,
                <<"o", "k", "a", "y">>, <<"r", "i", "g", "h", "t">>,
                <<"g", "o", "t", " ", "i", "t">>,
                <<"u", "n", "d", "e", "r", "s", "t", "o", "o", "d">>>>
\* The text handed to engine.say: r = 0 is random.random() >= threshold,
\* r = i > 0 is a filler drawn by random.choice.
Said(fillers, text, r) ==
    IF r = 0 THEN text ELSE fillers[r] \o <<",", " ">> \o text
\* engine.say / engine.runAndWait return, or raise
SpeakOutcomes == {"ok", "raise"}

\* ------------------------------------------------ FastVoiceAssistant (v.py)
LruMaxSize == 100

\* The functools.lru_cache wrapper around _get_cached_response: lru is its
\* table, least recently used first. A hit returns the memoised value without
\* running the body; a miss runs the body (response_cache.get(prompt)) and
\* memoises what it returned, None included.
_get_cached_response(table, cache, prompt) ==
    LET hits == {i \in 1..Len(table) : table[i].key = prompt} IN
    IF hits # {}
    THEN LET i == CHOOSE j \in hits : TRUE IN
         [val |-> table[i].val,
          lru |-> SubSeq(table, 1, i - 1) \o SubSeq(table, i + 1, Len(table))
                      \o <<table[i]>>]
    ELSE LET v == IF prompt \in DOMAIN cache THEN cache[prompt] ELSE None
             e == [key |-> prompt, val |-> v]
         IN  [val |-> v,
              lru |-> IF Len(table) >= LruMaxSize
                      THEN Tail(table) \o <<e>> ELSE Append(table, e)]

\* self.response_cache[prompt] = response_text
CachePut(cache, prompt, text) ==
    [q \in (DOMAIN cache) \cup {prompt} |-> IF q = prompt THEN text ELSE cache[q]]

_build_prompt(user_input) == BuildPrefix \o user_input

\* What ollama.chat may do: return a dict with message.content, return a dict
\* whose message has no content, return some other object, or raise.
ReplyTexts == {<<"o", "k">>, <<"f", "i", "n", "e", "!">>, <<>>}
ChatOutcomes ==
    [kind : {"dict"}, text : ReplyTexts]
        \cup {[kind |-> "object", text |-> <<"o", "k">>],
              [kind |-> "no_content", text |-> <<>>],
              [kind |-> "raise", text |-> <<>>]}

\* a get_ollama_response that caches whatever it returns, the apology too
OllamaFinish_CachesApology(cache, prompt, o) ==
    LET text == IF o.kind \in {"dict", "object"} THEN o.text ELSE R_Apology
    IN  [ret |-> text, cache |-> CachePut(cache, prompt, text)]
\* get_ollama_response after the await: the returned text and the cache
OllamaFinish(cache, prompt, o) ==
    IF o.kind \in {"dict", "object"}
    THEN [ret |-> o.text, cache |-> CachePut(cache, prompt, o.text)]
    ELSE [ret |-> R_Apology, cache |-> cache]

\* a quick_responses dict written with the farewells first
QuickKeys_FarewellFirst == <<K_bye, K_goodbye, K_time, K_date, K_hello>>
\* the quick_responses dict, keys in insertion order
QuickKeys == <<K_time, K_date, K_hello, K_bye, K_goodbye>>
QuickResponse(key, now) ==
    CASE key = K_time -> R_Its \o StrfTime(now)
      [] key = K_date -> R_TodayIs \o StrfDate(now)
      [] key = K_hello -> R_Hi
      [] key = K_bye -> R_Goodbye
      [] key = K_goodbye -> R_Goodbye
\* index of the first key of the dict found in the command, 0 when none is
FirstQuickKey(cmd) ==
    LET found == {i \in 1..Len(QuickKeys) : Contains(QuickKeys[i], cmd)} IN
    IF found = {} THEN 0 ELSE CHOOSE i \in found : \A j \in found : i <= j
\* return key in ["bye", "goodbye"]
IsFarewellKey(key) == key \in {K_bye, K_goodbye}

\* a process_command without the endswith test
Punctuate_Never(response) == response
\* if not response.endswith(('.', '!', '?')): response += '.'
Punctuate(response) ==
    IF EndsWithMark(response) THEN response ELSE response \o <<".">>

\* io: what the collaborators did last: ollama.list(), ollama.pull() and the
\* latest listen call ("none" before the call).
NoIo == [list |-> "none", pull |-> "none", listen |-> "none"]

\* gen, prevGen: the latest and the previous call of get_ollama_response:
\* its prompt, whether it ran ollama.chat, what ollama.chat did ("none" while
\* it has not ended or was not run), and the text returned (None before).
NoCall == [prompt |-> None, invoked |-> FALSE, outcome |-> "none", ret |-> None]

Heard == {U_time, U_time_bye, U_Bye, U_goodbye, U_hello, U_sing, U_joke}

Init ==
    /\ pc = "boot"
    /\ memory = EmptyMemory
    /\ file \in InitialFiles
    /\ response_cache = <<>>
    /\ lru = <<>>
    /\ command = None
    /\ spoken = <<>>
    /\ should_exit = FALSE
    /\ prev_command = None
    /\ gen = NoCall
    /\ prevGen = NoCall
    /\ exit = "none"
    /\ saved = <<>>
    /\ turns = 0
    /\ io = NoIo

\* The process ends: pc = "done", with the reason; `saving` is whether the path
\* taken calls save_memory, m the memory it is called on, o what the write does.
Leave(cause, saving, m, o) ==
    /\ pc' = "done"
    /\ exit' = cause
    /\ IF saving
       THEN /\ file' = save_memory(file, m, o)
            /\ saved' = Append(saved, m)
       ELSE UNCHANGED <<file, saved>>

\* __main__: ollama.list() succeeds and asyncio.run(main()) starts, or it
\* raises and the except clause prints and the process ends.
FVA_Boot ==
    /\ pc = "boot"
    /\ \E reachable \in BOOLEAN :
         /\ io' = [io EXCEPT !.list = IF reachable THEN "ok" ELSE "failed"]
         /\ IF reachable
            THEN /\ pc' = "main"
                 /\ UNCHANGED <<exit, file, saved>>
            ELSE Leave("unreachable", FALSE, memory, "ok")
    /\ UNCHANGED <<memory, response_cache, lru, command, spoken, should_exit,
                   prev_command, gen, prevGen, turns>>

\* main(): FastVoiceAssistant("Helper", ...): __init__ with load_memory
FVA_Init ==
    /\ pc = "main"
    /\ memory' = load_memory(file)
    /\ response_cache' = <<>>
    /\ pc' = "setup"
    /\ UNCHANGED <<file, lru, command, spoken, should_exit, prev_command, gen,
                   prevGen, exit, saved, turns, io>>

\* a setup_model whose except clause does not re-raise
SetupContinues_Swallowed(pulled, s) == s = "ok"
\* run() goes on from setup_model and the greeting to the loop when neither
\* raised: setup_model re-raises what ollama.pull raised
SetupContinues(pulled, s) == pulled /\ s = "ok"

\* run(): await setup_model(), then speak("Ready to help!"). A failed pull is
\* re-raised by setup_model, and a failed speak raises too: run's except
\* clause catches either, prints and saves, and run returns.
FVA_Setup ==
    /\ pc = "setup"
    /\ \E pulled \in BOOLEAN, s \in SpeakOutcomes, o \in SaveOutcomes :
         /\ io' = [io EXCEPT !.pull = IF pulled THEN "ok" ELSE "failed"]
         /\ spoken' = IF pulled THEN <<R_Ready>> ELSE <<>>
         /\ IF SetupContinues(pulled, s)
            THEN /\ pc' = "listen"
                 /\ UNCHANGED <<exit, file, saved>>
            ELSE Leave("setup", TRUE, memory, o)
    /\ UNCHANGED <<memory, response_cache, lru, command, should_exit, prev_command,
                   gen, prevGen, turns>>

\* What sr.Microphone(), recognizer.listen and recognize_google may do in one
\* listen call.
ListenFaults == {"timeout", "unknown", "request_error", "mic_error"}
\* an except clause that names sr.WaitTimeoutError alone
ClarifiedFaults_TimeoutOnly == {"timeout"}
\* except (sr.WaitTimeoutError, sr.UnknownValueError): the faults answered
\* with speak("Could you repeat that?")
ClarifiedFaults == {"timeout", "unknown"}
ListenOutcomes(heard) ==
    [kind : {"text"}, text : heard] \cup [kind : ListenFaults, text : {<<>>}]

\* One iteration of run's loop up to the call of process_command: listen(),
\* then `if command:`.
\*   text:          conversations gets the text as recognised, the command is
\*                  its lower case; a memory without "conversations" makes the
\*                  append raise KeyError, which `except Exception` prints
\*   timeout/unknown: speak("Could you repeat that?"), return None
\*   request_error: printed, return None
\*   mic_error:     sr.Microphone() raises outside listen's try
\* An exception that leaves listen (mic_error, or speak raising inside the
\* except clause) is caught by run's except clause: save_memory, run returns.
FVA_listen ==
    /\ pc = "listen"
    /\ turns < MaxTurns
    /\ turns' = turns + 1
    /\ \E l \in ListenOutcomes(Heard), s \in SpeakOutcomes, o \in SaveOutcomes :
         LET appended == l.kind = "text" /\ HasKey(memory, "conversations")
             m == IF appended
                  THEN [memory EXCEPT !.conversations = Append(@, l.text)]
                  ELSE memory
             raised == \/ l.kind = "mic_error"
                       \/ l.kind \in ClarifiedFaults /\ s = "raise"
             cmd == IF appended THEN Lower(l.text) ELSE None
         IN  /\ memory' = m
             /\ io' = [io EXCEPT !.listen = l.kind]
             /\ spoken' = IF l.kind \in ClarifiedFaults
                          THEN <<R_Repeat>> ELSE <<>>
             /\ command' = IF raised THEN command ELSE cmd
             /\ IF raised
                THEN Leave("fault", TRUE, m, o)
                ELSE /\ pc' = IF Truthy(cmd) THEN "process" ELSE "listen"
                     /\ UNCHANGED <<exit, file, saved>>
    /\ UNCHANGED <<response_cache, lru, should_exit, prev_command, gen, prevGen>>

\* process_command returned r to run's loop: `if should_exit: break` ends the
\* loop, run returns, main returns and the process ends; else listen again.
Returned(r) ==
    /\ should_exit' = r
    /\ IF r THEN Leave("farewell", FALSE, memory, "ok")
            ELSE /\ pc' = "listen"
                 /\ UNCHANGED <<exit, file, saved>>

\* process_command(command) up to its return, or up to the await of the
\* generation call when the command matches no quick rule and the cache
\* lookup gives nothing truthy. speak raising leaves process_command and is
\* caught by run's except clause.
FVA_process_command ==
    /\ pc = "process"
    /\ \E now \in Nows, s \in SpeakOutcomes, o \in SaveOutcomes :
         LET k == FirstQuickKey(command)
             looked == _get_cached_response(lru, response_cache, command)
         IN  IF k # 0
             THEN /\ spoken' = <<QuickResponse(QuickKeys[k], now)>>
                  /\ IF s = "ok"
                     THEN Returned(IsFarewellKey(QuickKeys[k]))
                     ELSE /\ Leave("fault", TRUE, memory, o)
                          /\ UNCHANGED should_exit
                  /\ UNCHANGED <<lru, gen, prevGen>>
             ELSE /\ lru' = looked.lru
                  /\ prevGen' = gen
                  /\ IF Truthy(looked.val)
                     THEN /\ gen' = [prompt |-> command, invoked |-> FALSE,
                                     outcome |-> "none", ret |-> looked.val]
                          /\ spoken' = <<Punctuate(looked.val)>>
                          /\ IF s = "ok"
                             THEN Returned(FALSE)
                             ELSE /\ Leave("fault", TRUE, memory, o)
                                  /\ UNCHANGED should_exit
                     ELSE /\ gen' = [prompt |-> command, invoked |-> TRUE,
                                     outcome |-> "none", ret |-> None]
                          /\ pc' = "generate"
                          /\ spoken' = <<>>
                          /\ UNCHANGED <<should_exit, exit, file, saved>>
    /\ prev_command' = command
    /\ UNCHANGED <<memory, response_cache, command, turns, io>>

\* The worker thread's ollama.chat finishes and get_ollama_response resumes:
\* extract the text and cache it, or catch the exception and return the
\* apology; process_command then punctuates, speaks and returns False.
FVA_generated ==
    /\ pc = "generate"
    /\ \E c \in ChatOutcomes, s \in SpeakOutcomes, o \in SaveOutcomes :
         LET fin == OllamaFinish(response_cache, command, c) IN
         /\ response_cache' = fin.cache
         /\ gen' = [gen EXCEPT !.outcome = c.kind, !.ret = fin.ret]
         /\ spoken' = <<Punctuate(fin.ret)>>
         /\ IF s = "ok"
            THEN Returned(FALSE)
            ELSE /\ Leave("fault", TRUE, memory, o)
                 /\ UNCHANGED should_exit
    /\ UNCHANGED <<memory, lru, command, prev_command, prevGen, turns, io>>

\* SIGINT while the loop runs synchronous code (listen, speak): the
\* KeyboardInterrupt passes run's `except Exception` and reaches main's
\* `except KeyboardInterrupt`, which saves.
FVA_KeyboardInterrupt ==
    /\ pc \in {"listen", "process"}
    /\ \E o \in SaveOutcomes : Leave("interrupt", TRUE, memory, o)
    /\ UNCHANGED <<memory, response_cache, lru, command, spoken, should_exit,
                   prev_command, gen, prevGen, turns, io>>

\* SIGINT while the generation call is awaited: the task is cancelled at the
\* await inside _run_in_thread's `with ThreadPoolExecutor()`, whose exit
\* joins the worker.
FVA_InterruptInFlight ==
    /\ pc = "generate"
    /\ pc' = "cancelling"
    /\ UNCHANGED <<memory, file, response_cache, lru, command, spoken,
                   should_exit, prev_command, gen, prevGen, exit, saved, turns, io>>

\* The worker's ollama.chat ends, the executor's exit returns and the
\* CancelledError leaves get_ollama_response, run and main: none of their
\* except clauses names it, so the process ends with no save.
FVA_WorkerJoined ==
    /\ pc = "cancelling"
    /\ Leave("interrupt", FALSE, memory, "ok")
    /\ UNCHANGED <<memory, response_cache, lru, command, spoken, should_exit,
                   prev_command, gen, prevGen, turns, io>>

Next ==
    \/ FVA_Boot
    \/ FVA_Init
    \/ FVA_Setup
    \/ FVA_listen
    \/ FVA_process_command
    \/ FVA_generated
    \/ FVA_KeyboardInterrupt
    \/ FVA_InterruptInFlight
    \/ FVA_WorkerJoined

Spec == Init /\ [][Next]_vars

\* ------------------------------------------- the cache under many prompts
\* get_ollama_response called directly, one call at a time, with prompts
\* q0001, q0002, ... (none matches a quick rule) and a backend that always
\* answers: the sequence of successful generation calls the cache bound is
\* about. The prompt of a call is the next unused one or the first one again.
Prompt(k) == <<"q">> \o FourDigits(k)
FillReply == [kind |-> "dict", text |-> <<"o", "k">>]

InitFill ==
    /\ pc = "idle"
    /\ memory = EmptyMemory
    /\ file = FileAbsent
    /\ response_cache = <<>>
    /\ lru = <<>>
    /\ command = None
    /\ spoken = <<>>
    /\ should_exit = FALSE
    /\ prev_command = None
    /\ gen = NoCall
    /\ prevGen = NoCall
    /\ exit = "none"
    /\ saved = <<>>
    /\ turns = 0
    /\ io = NoIo

\* get_ollama_response(prompt) up to its return on a cache hit, or up to the
\* await of the generation call
Fill_call ==
    /\ pc = "idle"
    /\ \E k \in {1, Cardinality(DOMAIN response_cache) + 1} :
         /\ k <= MaxFill
         /\ LET looked == _get_cached_response(lru, response_cache, Prompt(k)) IN
            /\ lru' = looked.lru
            /\ command' = Prompt(k)
            /\ prevGen' = gen
            /\ IF Truthy(looked.val)
               THEN /\ gen' = [prompt |-> Prompt(k), invoked |-> FALSE,
                               outcome |-> "none", ret |-> looked.val]
                    /\ pc' = "idle"
               ELSE /\ gen' = [prompt |-> Prompt(k), invoked |-> TRUE,
                               outcome |-> "none", ret |-> None]
                    /\ pc' = "awaiting"
    /\ UNCHANGED <<memory, file, response_cache, spoken, should_exit,
                   prev_command, exit, saved, turns, io>>

\* ollama.chat answers and get_ollama_response caches and returns the text
Fill_generated ==
    /\ pc = "awaiting"
    /\ LET fin == OllamaFinish(response_cache, command, FillReply) IN
       /\ response_cache' = fin.cache
       /\ gen' = [gen EXCEPT !.outcome = FillReply.kind, !.ret = fin.ret]
    /\ pc' = "idle"
    /\ UNCHANGED <<memory, file, lru, command, spoken, should_exit,
                   prev_command, prevGen, exit, saved, turns, io>>

NextFill == Fill_call \/ Fill_generated

SpecFill == InitFill /\ [][NextFill]_vars

\* --------------------------------------------------- VoiceAssistant (v_me.py)
\* The statements of one branch of process_command, in the order the code
\* runs them: speak(text), the tasks test of the recall branch, the append to
\* memory["tasks"], the reset of memory, save_memory.
Op(name, text) == [op |-> name, text |-> text]
VA_ElseResponses == <<M_Else1, M_Else2, M_Else3, M_Else4>>

\* self.memory["tasks"][-3:]
LastThree(tasks) ==
    SubSeq(tasks, IF Len(tasks) > 3 THEN Len(tasks) - 2 ELSE 1, Len(tasks))

\* The if/elif chain: the first test that holds picks the branch.
VA_Branch(cmd) ==
    IF Contains(K_time, cmd) THEN "time"
    ELSE IF Contains(K_date, cmd) THEN "date"
    ELSE IF Contains(K_remember, cmd) THEN "remember"
    ELSE IF Contains(K_what_did, cmd) \/ Contains(K_what_do, cmd) THEN "recall"
    ELSE IF Contains(K_clear, cmd) THEN "clear"
    ELSE IF Contains(K_goodbye, cmd) \/ Contains(K_bye, cmd) THEN "bye"
    ELSE "else"

\* The statements of the branch taken; m is memory at the call, pick the
\* index random.choice draws in the else branch.
VA_Statements(cmd, m, now, pick) ==
    LET b == VA_Branch(cmd) IN
    CASE b = "time" -> <<Op("speak", R_Its \o StrfTime(now))>>
      [] b = "date" -> <<Op("speak", R_TodayIs \o StrfDate(now))>>
      [] b = "remember" ->
            <<Op("speak", M_Note),
              Op("append_task", Strip(Replace(cmd, K_remember, <<>>)))>>
      [] b = "recall" ->
            IF ~HasKey(m, "tasks") THEN <<Op("test_tasks", <<>>)>>
            ELSE IF m.tasks # <<>>
            THEN <<Op("test_tasks", <<>>), Op("speak", M_Heres)>>
                    \o [i \in 1..Len(LastThree(m.tasks)) |->
                            Op("speak", M_Dash \o LastThree(m.tasks)[i])]
            ELSE <<Op("test_tasks", <<>>), Op("speak", M_NoTasks)>>
      [] b = "clear" -> <<Op("clear", <<>>), Op("speak", M_Cleared)>>
      [] b = "bye" -> <<Op("speak", M_Goodbye), Op("save", <<>>)>>
      [] b = "else" -> <<Op("speak", VA_ElseResponses[pick])>>

\* Run statement i and the ones after it from state st = [memory, spoken,
\* file, saved, raised]; failAt is the statement whose speak raises (0: none),
\* o what save_memory's write does. A subscript of memory with a key it
\* lacks raises KeyError. Nothing runs after a raise.
RECURSIVE VA_Run(_, _, _, _, _)
VA_Run(ops, i, failAt, o, st) ==
    IF i > Len(ops) \/ st.raised THEN st
    ELSE LET op == ops[i]
             next ==
               CASE op.op = "speak" ->
                      [st EXCEPT !.spoken = Append(@, op.text),
                                 !.raised = (failAt = i)]
                 [] op.op = "test_tasks" ->
                      [st EXCEPT !.raised = ~HasKey(st.memory, "tasks")]
                 [] op.op = "append_task" ->
                      IF HasKey(st.memory, "tasks")
                      THEN [st EXCEPT !.memory.tasks = Append(@, op.text)]
                      ELSE [st EXCEPT !.raised = TRUE]
                 [] op.op = "clear" -> [st EXCEPT !.memory = EmptyMemory]
                 [] op.op = "save" ->
                      [st EXCEPT !.file = save_memory(st.file, st.memory, o),
                                 !.saved = Append(@, st.memory)]
         IN  VA_Run(ops, i + 1, failAt, o, next)

\* the statements whose speak may raise
SpeakAt(ops) == {i \in 1..Len(ops) : ops[i].op = "speak"}

HeardMe == {U_trash, U_milk, U_date, U_what_do, U_what_did, U_clear, U_Bye,
            U_time_bye, U_sing}

InitMe ==
    /\ pc = "main"
    /\ memory = EmptyMemory
    /\ file \in InitialFiles
    /\ response_cache = <<>>
    /\ lru = <<>>
    /\ command = None
    /\ spoken = <<>>
    /\ should_exit = FALSE
    /\ prev_command = None
    /\ gen = NoCall
    /\ prevGen = NoCall
    /\ exit = "none"
    /\ saved = <<>>
    /\ turns = 0
    /\ io = NoIo

\* __main__'s except clauses: an exception that leaves run is printed and
\* save_memory is called on the memory as it then stands.
VA_Caught(cause, m, f, sv, o) ==
    /\ pc' = "done"
    /\ exit' = cause
    /\ file' = save_memory(f, m, o)
    /\ saved' = Append(sv, m)

\* VoiceAssistant("Helper"): __init__ with load_memory
VA_Init ==
    /\ pc = "main"
    /\ memory' = load_memory(file)
    /\ pc' = "greet"
    /\ UNCHANGED <<file, response_cache, lru, command, spoken, should_exit,
                   prev_command, gen, prevGen, exit, saved, turns, io>>

\* run(): the greeting before the loop
VA_Greet ==
    /\ pc = "greet"
    /\ spoken' = <<M_HelloPre \o N_Helper \o M_HelloPost>>
    /\ \E s \in SpeakOutcomes, o \in SaveOutcomes :
         IF s = "ok"
         THEN /\ pc' = "listen"
              /\ UNCHANGED <<exit, file, saved>>
         ELSE VA_Caught("fault", memory, file, saved, o)
    /\ UNCHANGED <<memory, response_cache, lru, command, should_exit,
                   prev_command, gen, prevGen, turns, io>>

\* One iteration of run's loop up to the call of process_command: listen(),
\* `if command:`, and for a falsy command the farewell test on str(command).
\*   noise_error: adjust_for_ambient_noise raises outside listen's try, and
\*                mic_error: sr.Microphone() does: both leave run
\*   timeout, unknown, request_error: a spoken notice, return None
\*   other_error: printed, return None
VA_ListenFaults ==
    {"timeout", "unknown", "request_error", "other_error", "mic_error",
     "noise_error"}
VA_Notice(kind) ==
    CASE kind = "timeout" -> <<M_NoHear>>
      [] kind = "unknown" -> <<M_NoCatch>>
      [] kind = "request_error" -> <<M_NoService>>
      [] OTHER -> <<>>
VA_listen ==
    /\ pc = "listen"
    /\ turns < MaxTurns
    /\ turns' = turns + 1
    /\ \E l \in [kind : {"text"}, text : HeardMe]
                    \cup [kind : VA_ListenFaults, text : {<<>>}],
          s \in SpeakOutcomes, o \in SaveOutcomes :
         LET appended == l.kind = "text" /\ HasKey(memory, "conversations")
             m == IF appended
                  THEN [memory EXCEPT !.conversations = Append(@, l.text)]
                  ELSE memory
             raised == \/ l.kind \in {"mic_error", "noise_error"}
                       \/ VA_Notice(l.kind) # <<>> /\ s = "raise"
             cmd == IF appended THEN Lower(l.text) ELSE None
             said == IF cmd = None THEN StrNone ELSE cmd
         IN  /\ memory' = m
             /\ io' = [io EXCEPT !.listen = l.kind]
             /\ spoken' = VA_Notice(l.kind)
             /\ command' = IF raised THEN command ELSE cmd
             /\ IF raised
                THEN VA_Caught("fault", m, file, saved, o)
                ELSE /\ pc' = IF Truthy(cmd) THEN "process"
                              ELSE IF Contains(K_goodbye, said)
                                        \/ Contains(K_bye, said)
                                   THEN "done" ELSE "listen"
                     /\ UNCHANGED <<exit, file, saved>>
    /\ UNCHANGED <<response_cache, lru, should_exit, prev_command, gen, prevGen>>

\* The rest of the iteration: process_command(command), then the farewell
\* test of run on str(command): break ends run and the process with it.
\* The clock is read in the time and date branches only, random.choice is
\* called in the else branch only, and at most one save_memory runs: the
\* bye branch's, or __main__'s after a raise.
VA_process_command ==
    /\ pc = "process"
    /\ prev_command' = command
    /\ LET b == VA_Branch(command)
           clock == IF b \in {"time", "date"} THEN Nows
                    ELSE {CHOOSE n \in Nows : TRUE}
           picks == IF b = "else" THEN 1..Len(VA_ElseResponses) ELSE {1}
       IN
       \E now \in clock, pick \in picks :
         LET ops == VA_Statements(command, memory, now, pick) IN
         \E failAt \in {0} \cup SpeakAt(ops), o \in SaveOutcomes :
            LET st == VA_Run(ops, 1, failAt, o,
                             [memory |-> memory, spoken |-> <<>>, file |-> file,
                              saved |-> saved, raised |-> FALSE])
            IN  /\ memory' = st.memory
                /\ spoken' = st.spoken
                /\ IF st.raised
                   THEN VA_Caught("fault", st.memory, st.file, st.saved, o)
                   ELSE /\ file' = st.file
                        /\ saved' = st.saved
                        /\ IF Contains(K_goodbye, command)
                                \/ Contains(K_bye, command)
                           THEN pc' = "done" /\ exit' = "farewell"
                           ELSE pc' = "listen" /\ UNCHANGED exit
    /\ UNCHANGED <<response_cache, lru, command, should_exit, gen, prevGen,
                   turns, io>>

\* SIGINT inside run: __main__'s `except KeyboardInterrupt` saves
VA_KeyboardInterrupt ==
    /\ pc \in {"greet", "listen", "process"}
    /\ \E o \in SaveOutcomes : VA_Caught("interrupt", memory, file, saved, o)
    /\ UNCHANGED <<memory, response_cache, lru, command, spoken, should_exit,
                   prev_command, gen, prevGen, turns, io>>

NextMe ==
    \/ VA_Init
    \/ VA_Greet
    \/ VA_listen
    \/ VA_process_command
    \/ VA_KeyboardInterrupt

SpecMe == InitMe /\ [][NextMe]_vars

\* ================================================================== claims
\* process_command returned to run's loop in this step (it neither raised nor
\* was interrupted, nor is it suspended at the generation call)
Completed == pc' = "listen" \/ exit' = "farewell"

\* C1: when get_ollama_response is called twice in a row with the same prompt
\* and the first call's generation succeeded with a non-empty text, the second
\* call does not run ollama.chat and returns the text the first returned.
C1_CacheIdempotence ==
    ( /\ gen.prompt # None
      /\ gen.prompt = prevGen.prompt
      /\ gen.ret # None
      /\ prevGen.invoked
      /\ prevGen.outcome \in {"dict", "object"}
      /\ prevGen.ret # <<>> )
    => (~gen.invoked /\ gen.ret = prevGen.ret)

\* C2: FastVoiceAssistant.process_command returns True for every command that
\* contains "bye" or "goodbye", whatever else it contains.
C2_FarewellTerminates ==
    [][ ( /\ pc = "process"
          /\ Contains(K_bye, command) \/ Contains(K_goodbye, command)
          /\ Completed )
        => should_exit' = TRUE ]_vars

\* C3: when the FastVoiceAssistant session has ended by a farewell, an
\* interruption or a failure inside the loop, save_memory has been called on
\* the memory as it stands.
C3_SavedOnEveryExit ==
    (pc = "done" /\ exit \in {"farewell", "interrupt", "fault"})
    => (saved # <<>> /\ saved[Len(saved)] = memory)

\* The entries of the lines "- <entry>" among the texts spoken
Recited(texts) ==
    LET lines == SelectSeq(texts, LAMBDA t : SubSeq(t, 1, Len(M_Dash)) = M_Dash)
    IN  [i \in 1..Len(lines) |-> SubSeq(lines[i], Len(M_Dash) + 1, Len(lines[i]))]
\* the last min(3, n) of n tasks, in insertion order
LastMin3(tasks) ==
    LET n == Len(tasks)
        k == IF n < 3 THEN n ELSE 3
    IN  [i \in 1..k |-> tasks[n - k + i]]

\* C4: a command containing "what do you remember" or "what did i tell you"
\* makes VoiceAssistant.process_command recite exactly the last min(3, n)
\* tasks in insertion order and leaves the tasks unchanged.
C4_RecallLastThree ==
    [][ ( /\ pc = "process"
          /\ Contains(K_what_do, command) \/ Contains(K_what_did, command)
          /\ HasKey(memory, "tasks")
          /\ Completed )
        => ( /\ Recited(spoken') = LastMin3(memory.tasks)
             /\ memory'.tasks = memory.tasks ) ]_vars

\* C5: in VoiceAssistant, "what do you remember" processed right after
\* "clear memory" is answered by the no-tasks message, and the tasks are
\* empty afterwards.
C5_ClearThenRecall ==
    [][ ( /\ pc = "process"
          /\ prev_command = K_clear
          /\ command = K_what_do
          /\ Completed )
        => (spoken' = <<M_NoTasks>> /\ memory'.tasks = <<>>) ]_vars

\* C6: response_cache never holds more than 100 entries, and once the 101st
\* distinct prompt is in it the first one is not.
C6_CacheBound ==
    /\ Cardinality(DOMAIN response_cache) <= LruMaxSize
    /\ Prompt(LruMaxSize + 1) \in DOMAIN response_cache
         => Prompt(1) \notin DOMAIN response_cache

\* C7: when ollama.chat raises, get_ollama_response returns the apology (which
\* process_command goes on to speak) and response_cache is left as it was.
C7_BackendFailureGivesApology ==
    [][ (pc = "generate" /\ gen'.outcome = "raise")
        => ( /\ gen'.ret = R_Apology
             /\ spoken' = <<R_Apology>>
             /\ response_cache' = response_cache ) ]_vars
C7_Witness ==
    /\ pc = "listen"
    /\ gen.outcome = "raise"
    /\ gen.ret = R_Apology
    /\ spoken = <<R_Apology>>
    /\ gen.prompt \notin DOMAIN response_cache

\* hh:mm AM|PM with hh in 01..12 and mm in 00..59
ValidClock12(t) ==
    /\ Len(t) = 8
    /\ SubSeq(t, 1, 2) \in {TwoDigits(h) : h \in 1..12}
    /\ t[3] = ":"
    /\ SubSeq(t, 4, 5) \in {TwoDigits(m) : m \in 0..59}
    /\ t[6] = " "
    /\ SubSeq(t, 7, 8) \in {<<"A", "M">>, <<"P", "M">>}
IsTimeResponse(texts) ==
    /\ Len(texts) = 1
    /\ SubSeq(texts[1], 1, Len(R_Its)) = R_Its
    /\ ValidClock12(SubSeq(texts[1], Len(R_Its) + 1, Len(texts[1])))

\* C8: for a command containing "time", whatever else it contains,
\* FastVoiceAssistant.process_command speaks the time response ("It's " and a
\* 12-hour clock reading) and, unless speak itself raises, returns False.
C8_TimeRuleWins ==
    [][ (pc = "process" /\ Contains(K_time, command) /\ exit' # "interrupt")
        => ( /\ IsTimeResponse(spoken')
             /\ \/ exit' = "fault"
                \/ pc' = "listen" /\ should_exit' = FALSE ) ]_vars
C8_Witness ==
    /\ pc = "listen"
    /\ command = Lower(U_time_bye)
    /\ Contains(K_bye, command)
    /\ IsTimeResponse(spoken)
    /\ should_exit = FALSE

\* what "remember" commands are to leave in the task list
E_trash == <<"t", "a", "k", "e", " ", "o", "u", "t", " ", "t", "h", "e", " ", "t", "r", "a", "s", "h">>
E_milk == <<"d", "o", " ", " ", "m", "i", "l", "k">>
E_what_do == <<"w", "h", "a", "t", " ", "d", "o", " ", "y", "o", "u">>
C9_Expected(cmd) ==
    CASE cmd = Lower(U_trash) -> E_trash
      [] cmd = Lower(U_milk) -> E_milk
      [] cmd = Lower(U_what_do) -> E_what_do
\* entry is cmd with one occurrence of "remember" cut out, then trimmed
CutOnce(cmd, entry) ==
    \E i \in 0..(Len(cmd) - Len(K_remember)) :
       /\ SubSeq(cmd, i + 1, i + Len(K_remember)) = K_remember
       /\ LET rest == SubSeq(cmd, 1, i)
                          \o SubSeq(cmd, i + Len(K_remember) + 1, Len(cmd))
          IN  \E a \in 0..Len(rest), b \in 0..Len(rest) :
                 /\ entry = SubSeq(rest, a + 1, b)
                 /\ \A j \in (1..a) \cup ((b + 1)..Len(rest)) : rest[j] = " "
                 /\ entry = <<>> \/ (entry[1] # " " /\ entry[Len(entry)] # " ")

\* C9: for a command that contains "remember" and neither "time" nor "date",
\* VoiceAssistant.process_command appends exactly one task, the command with
\* "remember" removed and the surrounding whitespace trimmed; the earlier
\* tasks keep their values and order.
C9_RememberAppendsStripped ==
    [][ ( /\ pc = "process"
          /\ Contains(K_remember, command)
          /\ ~Contains(K_time, command)
          /\ ~Contains(K_date, command)
          /\ HasKey(memory, "tasks")
          /\ Completed )
        => ( /\ Len(memory'.tasks) = Len(memory.tasks) + 1
             /\ SubSeq(memory'.tasks, 1, Len(memory.tasks)) = memory.tasks
             /\ memory'.tasks[Len(memory'.tasks)] = C9_Expected(command)
             /\ CutOnce(command, memory'.tasks[Len(memory'.tasks)]) ) ]_vars
C9_Witness ==
    /\ pc = "listen"
    /\ command = Lower(U_trash)
    /\ spoken = <<M_Note>>
    /\ memory.tasks = Append(StoredTasks, E_trash)

\* C10: once inside the loop, only a farewell or an interruption ends the
\* FastVoiceAssistant session.
C10_OnlyFarewellOrInterruptEndsLoop ==
    (pc = "done" /\ exit \notin {"unreachable", "setup"})
    => exit \in {"farewell", "interrupt"}

\* C11: once an assistant is constructed, self.memory has the three fields
\* conversations, tasks and preferences.
C11_MemoryHasThreeFields ==
    pc \notin {"boot", "main"} => MemoryKeys \subseteq DOMAIN memory

\* C12: when FastVoiceAssistant.listen gets a capture timeout or unrecognisable
\* speech it speaks the clarification prompt and appends nothing to
\* conversations; unless speak itself raises, it returns None and the loop
\* listens again without calling process_command.
C12_NoUtteranceReprompts ==
    [][ (pc = "listen" /\ turns' # turns /\ io'.listen \in {"timeout", "unknown"})
        => ( /\ spoken' = <<R_Repeat>>
             /\ memory' = memory
             /\ prev_command' = prev_command
             /\ \/ exit' = "fault"
                \/ pc' = "listen" /\ command' = None ) ]_vars
C12_Witness ==
    /\ pc = "listen"
    /\ io.listen = "unknown"
    /\ command = None
    /\ spoken = <<R_Repeat>>
    /\ turns = 2
    /\ HasKey(memory, "conversations")
    /\ Len(memory.conversations) = 1

\* C13: an interrupt arriving while a generation call is in flight ends the
\* session with a memory save and never waits for the worker running
\* ollama.chat.
C13_InterruptDoesNotWait ==
    /\ pc # "cancelling"
    /\ (pc = "done" /\ exit = "interrupt") => saved # <<>>

\* C14: a save_memory call leaves in the file either the complete snapshot it
\* was given or the complete content the file had before.
C14_SaveIsAtomic ==
    [][ Len(saved') > Len(saved)
        => (file' = JsonDump(saved'[Len(saved')]) \/ file' = file) ]_vars

\* C15: no value stored in response_cache is the empty string or the apology.
C15_OnlyRealResponsesCached ==
    \A p \in DOMAIN response_cache :
        response_cache[p] # <<>> /\ response_cache[p] # R_Apology

\* C16: with assistant_memory.json absent, unreadable or not valid JSON,
\* construction completes and leaves the empty memory.
C16_LoadFallsBackToEmpty ==
    [][ (pc = "main" /\ file.kind \in {"absent", "corrupt"})
        => ( /\ pc' = "setup"
             /\ exit' = "none"
             /\ memory' = [conversations |-> <<>>, tasks |-> <<>>,
                           preferences |-> <<>>] ) ]_vars
C16_Witness ==
    /\ pc = "setup"
    /\ file = FileCorrupt
    /\ memory = [conversations |-> <<>>, tasks |-> <<>>, preferences |-> <<>>]

\* pc inside run's while loop
InLoop == pc \in {"listen", "process", "generate", "cancelling"}

\* C17: FastVoiceAssistant is in its loop only after ollama.list() and the
\* model pull both succeeded; when ollama.list() fails no assistant is
\* built, and when the pull fails the process ends with no greeting and no
\* listen call.
C17_ListensOnlyWhenBackendReady ==
    /\ (InLoop \/ turns > 0) => (io.list = "ok" /\ io.pull = "ok")
    /\ io.list = "failed"
         => (pc = "done" /\ io.pull = "none" /\ spoken = <<>> /\ saved = <<>>)
    /\ io.pull = "failed"
         => (pc = "done" /\ turns = 0 /\ spoken = <<>> /\ io.listen = "none")
C17_Witness ==
    /\ pc = "done"
    /\ io.list = "ok"
    /\ io.pull = "failed"
    /\ exit = "setup"
    /\ turns = 0
    /\ spoken = <<>>

\* C18: when VoiceAssistant.run's loop has ended on an utterance containing
\* "bye" or "goodbye", save_memory has been called on the memory as it stands
\* after that utterance.
C18_FarewellExitSaved ==
    (exit = "farewell" /\ (Contains(K_bye, command) \/ Contains(K_goodbye, command)))
    => (Len(saved) > 0 /\ saved[Len(saved)] = memory)

====
